---------------------------- MODULE Spec2Model ----------------------------
(***************************************************************************)
(* Metadata reconciliation of AI-Nurse_ScR_v6: the Block 4 consensus /     *)
(* autofix / review script, the field normalizers of Block 3 and the       *)
(* matchers of ai_nurse_scr.extraction.                                    *)
(*                                                                         *)
(* Python strings are modelled as sequences of one-character strings, so   *)
(* that strip, lower, split, regex substitution and difflib's ratio are    *)
(* computed character by character as the code computes them.              *)
(***************************************************************************)
EXTENDS Naturals, Integers, Sequences, FiniteSets, TLC

(***************************************************************************)
(* Characters                                                              *)
(***************************************************************************)

\* The characters of the model in ascending code point order (Python
\* compares strings code point by code point).
CharOrder ==
  << "\t", "\n", " ", "&", ",", "-", ".", "/",
     "0", "1", "2", "3", "4", "5", "6", "7", "8", "9", ":", ";",
     "A", "B", "C", "D", "E", "F", "G", "H", "I", "J", "K", "L", "M",
     "N", "O", "P", "Q", "R", "S", "T", "U", "V", "W", "X", "Y", "Z",
     "[", "]", "_",
     "a", "b", "c", "d", "e", "f", "g", "h", "i", "j", "k", "l", "m",
     "n", "o", "p", "q", "r", "s", "t", "u", "v", "w", "x", "y", "z",
     "|" >>

Ord(c) == CHOOSE i \in 1..Len(CharOrder) : CharOrder[i] = c

UpperLetters == { CharOrder[i] : i \in 21..46 }
LowerLetters == { CharOrder[i] : i \in 50..75 }
Digits == { CharOrder[i] : i \in 9..18 }

\* str.lower() on one character: the upper-case letters are 29 places below
\* their lower-case forms in CharOrder.
LowerChar(c) == IF c \in UpperLetters THEN CharOrder[Ord(c) + 29] ELSE c

\* str.isspace() / regex \s
IsSpace(c) == c \in {" ", "\t", "\n"}

\* str.isalnum()
IsAlnum(c) == c \in UpperLetters \cup LowerLetters \cup Digits

\* [a-zA-Z]
IsAlpha(c) == c \in UpperLetters \cup LowerLetters

(***************************************************************************)
(* String primitives of Python used by the code                           *)
(***************************************************************************)

\* str.lower()
StrLower(s) == [i \in 1..Len(s) |-> LowerChar(s[i])]

\* str.strip()
StrStrip(s) ==
  LET keep == { i \in 1..Len(s) : ~IsSpace(s[i]) }
  IN  IF keep = {} THEN << >>
      ELSE LET lo == CHOOSE i \in keep : \A j \in keep : i <= j
               hi == CHOOSE i \in keep : \A j \in keep : j <= i
           IN  SubSeq(s, lo, hi)

\* x.replace(' ', '')
RemoveBlanks(s) == SelectSeq(s, LAMBDA c : c # " ")

\* re.sub(r"\s", "", x)
RemoveSpaces(s) == SelectSeq(s, LAMBDA c : ~IsSpace(c))

\* x.replace(",", "")
RemoveCommas(s) == SelectSeq(s, LAMBDA c : c # ",")

\* str.startswith
StartsWith(s, p) == Len(s) >= Len(p) /\ SubSeq(s, 1, Len(p)) = p

\* s[n:]
DropFirst(s, n) == SubSeq(s, n + 1, Len(s))

\* lexicographic comparison of two strings, a < b
RECURSIVE StrLess(_, _)
StrLess(a, b) ==
  IF b = << >> THEN FALSE
  ELSE IF a = << >> THEN TRUE
  ELSE IF a[1] # b[1] THEN Ord(a[1]) < Ord(b[1])
  ELSE StrLess(Tail(a), Tail(b))

\* sep.join(parts)
RECURSIVE StrJoin(_, _)
StrJoin(parts, sep) ==
  IF parts = << >> THEN << >>
  ELSE IF Len(parts) = 1 THEN parts[1]
  ELSE parts[1] \o sep \o StrJoin(Tail(parts), sep)

\* re.split on a class of one-character separators (also str.split(sep)):
\* empty pieces are kept, as Python keeps them.
RECURSIVE SplitAcc(_, _, _)
SplitAcc(s, seps, cur) ==
  IF s = << >> THEN << cur >>
  ELSE IF s[1] \in seps THEN << cur >> \o SplitAcc(Tail(s), seps, << >>)
  ELSE SplitAcc(Tail(s), seps, Append(cur, s[1]))

SplitOn(s, seps) == SplitAcc(s, seps, << >>)

\* str.split() with no argument: split on runs of whitespace, no empty pieces
SplitWhitespace(s) == SelectSeq(SplitOn(s, {" ", "\t", "\n"}), LAMBDA p : p # << >>)

\* re.sub(r"\s+", " ", x): every run of whitespace becomes one blank
RECURSIVE CollapseSpaces(_)
CollapseSpaces(s) ==
  IF s = << >> THEN << >>
  ELSE IF IsSpace(s[1])
       THEN IF Len(s) >= 2 /\ IsSpace(s[2]) THEN CollapseSpaces(Tail(s))
            ELSE << " " >> \o CollapseSpaces(Tail(s))
       ELSE << s[1] >> \o CollapseSpaces(Tail(s))

\* the elements of a sequence
Range(q) == { q[i] : i \in 1..Len(q) }

(***************************************************************************)
(* Block 4: matching helpers                                               *)
(***************************************************************************)

\* norm_str: lower-case and delete every run of whitespace, non-word
\* characters and underscores, i.e. keep letters and digits only.
norm_str(x) == SelectSeq(StrLower(x), LAMBDA c : IsAlnum(c))

\* difflib.SequenceMatcher.find_longest_match on whole strings: the longest
\* common block, of those the one starting earliest in a, of those the one
\* starting earliest in b.  <<0, 0, 0>> when there is none.
find_longest_match(a, b) ==
  LET blocks == { t \in (1..Len(a)) \X (1..Len(b)) \X (1..Len(a)) :
                    /\ t[1] + t[3] - 1 <= Len(a)
                    /\ t[2] + t[3] - 1 <= Len(b)
                    /\ SubSeq(a, t[1], t[1] + t[3] - 1) = SubSeq(b, t[2], t[2] + t[3] - 1) }
      better(t, u) == \/ t[3] > u[3]
                      \/ t[3] = u[3] /\ t[1] < u[1]
                      \/ t[3] = u[3] /\ t[1] = u[1] /\ t[2] <= u[2]
  IN  IF blocks = {} THEN << 0, 0, 0 >>
      ELSE CHOOSE t \in blocks : \A u \in blocks : better(t, u)

\* the sum of the sizes of SequenceMatcher.get_matching_blocks(): the longest
\* block, then recursively the pieces to its left and to its right.
RECURSIVE matching_size(_, _)
matching_size(a, b) ==
  IF a = << >> \/ b = << >> THEN 0
  ELSE LET t == find_longest_match(a, b)
       IN  IF t[3] = 0 THEN 0
           ELSE t[3]
                + matching_size(SubSeq(a, 1, t[1] - 1), SubSeq(b, 1, t[2] - 1))
                + matching_size(SubSeq(a, t[1] + t[3], Len(a)), SubSeq(b, t[2] + t[3], Len(b)))

\* fuzzy_ratio: int(ratio * 100) with ratio = 2.0 * matches / (len(a) + len(b)),
\* and 1.0 for two empty strings.
fuzzy_ratio(a, b) ==
  IF Len(a) + Len(b) = 0 THEN 100
  ELSE (200 * matching_size(a, b)) \div (Len(a) + Len(b))

TitleThreshold == 88
AuthorThreshold == 82

\* Python's None, different from every string
NoneValue == << "None" >>

\* close_enough(a, b, field), the helper of the consensus loop; "not a" holds
\* for the empty string and for None
close_enough(a, b, field) ==
  IF a \in {<< >>, NoneValue} \/ b \in {<< >>, NoneValue} THEN FALSE
  ELSE IF field \in {"title", "author"}
       THEN \/ norm_str(a) = norm_str(b)
            \/ fuzzy_ratio(a, b) >= (IF field = "title" THEN TitleThreshold ELSE AuthorThreshold)
       ELSE StrLower(StrStrip(a)) = StrLower(StrStrip(b))

(***************************************************************************)
(* Block 4: the consensus / autofix step for one (row, field)              *)
(***************************************************************************)

fields == << "title", "author", "year", "doi" >>
methods == << "llm_raw", "grobid", "fitz", "crossref", "openalex", "filename" >>

\* the field names of the extraction stage (Block 3.0 / Block 3 / extraction.py)
extraction_fields ==
  << "title", "author", "year", "doi",
     "author_keywords", "country", "source_journal", "study_type" >>

\* the placeholder the script treats as a missing vote
MISSING == << "[", "M", "i", "s", "s", "i", "n", "g", "]" >>

\* a cell of the data frame that was never assigned (pandas NaN); it differs
\* from every string, whose elements are single characters
NaN == << "nan" >>
NoSrc == "nan"

\* {m: "" for m in methods}, the default vote map
empty_votes == [m \in Range(methods) |-> << >>]

\* a variant of nonblank that forgets the "[Missing]" placeholder
nonblank_truthy(votes) == SelectSeq(methods, LAMBDA m : votes[m] # << >>)

\* nonblank = [m for m in methods if votes[m] and votes[m] != "[Missing]"]
nonblank(votes) == SelectSeq(methods, LAMBDA m : votes[m] # << >> /\ votes[m] # MISSING)

\* preferred_raw: the vote of the first of openalex, crossref that is close
\* enough to the llm vote; None (modelled as the empty string, equally falsy
\* in "if preferred_raw") when neither is.
preferred_raw(votes, field) ==
  LET hits == SelectSeq(<< "openalex", "crossref" >>,
                        LAMBDA m : close_enough(votes["llm_raw"], votes[m], field))
  IN  IF hits = << >> THEN << >> ELSE votes[hits[1]]

\* match_methods = [m for m in methods if close_enough(llm_val, votes[m], field)]
match_methods(votes, field) ==
  SelectSeq(methods, LAMBDA m : close_enough(votes["llm_raw"], votes[m], field))

\* n_matches = len([k for k in match_methods if votes[k]])
n_matches(votes, field) ==
  Len(SelectSeq(match_methods(votes, field), LAMBDA k : votes[k] # << >>))

\* valid_compare_methods = [m for m in methods if m != "filename" and votes[m]]
valid_compare_methods(votes) ==
  SelectSeq(methods, LAMBDA m : m # "filename" /\ votes[m] # << >>)

\* a variant of the loop body whose agreement branches ask for every method
\* to agree with the llm vote instead of two
consensus_unanimous(votes, field) ==
  IF field \in {"title", "author"} /\ preferred_raw(votes, field) # << >>
  THEN [final |-> preferred_raw(votes, field), src |-> "openalex/crossref",
        branch |-> "preferred"]
  ELSE IF n_matches(votes, field) >= Len(methods)
  THEN [final |-> votes["llm_raw"], src |-> "llm_raw", branch |-> "agreement"]
  ELSE IF Len(nonblank(votes)) = 1
  THEN [final |-> votes[nonblank(votes)[1]], src |-> nonblank(votes)[1],
        branch |-> "single"]
  ELSE [final |-> NaN, src |-> NoSrc, branch |-> "review"]

\* The body of the loop "for field in fields" for one row: the values written
\* to {field}_final and {field}_src and the branch that wrote them.
\*   preferred : lines 2103-2108      agreement : lines 2109-2114, 2116-2121
\*   single    : lines 2124-2129      review    : lines 2132-2133
consensus(votes, field) ==
  IF field \in {"title", "author"} /\ preferred_raw(votes, field) # << >>
  THEN [final |-> preferred_raw(votes, field), src |-> "openalex/crossref",
        branch |-> "preferred"]
  ELSE IF /\ field \in {"title", "author"}
          /\ n_matches(votes, field) >= 2
          /\ Range(match_methods(votes, field)) \cap Range(valid_compare_methods(votes)) # {}
  THEN [final |-> votes["llm_raw"], src |-> "llm_raw", branch |-> "agreement"]
  ELSE IF field \notin {"title", "author"} /\ n_matches(votes, field) >= 2
  THEN [final |-> votes["llm_raw"], src |-> "llm_raw", branch |-> "agreement"]
  ELSE IF Len(nonblank(votes)) = 1
  THEN [final |-> votes[nonblank(votes)[1]], src |-> nonblank(votes)[1],
        branch |-> "single"]
  ELSE [final |-> NaN, src |-> NoSrc, branch |-> "review"]

(***************************************************************************)
(* String constants of the normalizers                                     *)
(***************************************************************************)

HTTP_DOI == << "h", "t", "t", "p", ":", "/", "/", "d", "o", "i", ".", "o", "r", "g", "/" >>
HTTPS_DOI == << "h", "t", "t", "p", "s", ":", "/", "/", "d", "o", "i", ".", "o", "r", "g", "/" >>
HTTP_DX_DOI == << "h", "t", "t", "p", ":", "/", "/", "d", "x", ".", "d", "o", "i", ".", "o", "r", "g", "/" >>
HTTPS_DX_DOI == << "h", "t", "t", "p", "s", ":", "/", "/", "d", "x", ".", "d", "o", "i", ".", "o", "r", "g", "/" >>

AND_WORD == << " ", "a", "n", "d", " " >>

UNITED_STATES == << "U", "n", "i", "t", "e", "d", " ", "S", "t", "a", "t", "e", "s" >>
UNITED_KINGDOM == << "U", "n", "i", "t", "e", "d", " ", "K", "i", "n", "g", "d", "o", "m" >>
AUSTRALIA == << "A", "u", "s", "t", "r", "a", "l", "i", "a" >>
NEW_ZEALAND == << "N", "e", "w", " ", "Z", "e", "a", "l", "a", "n", "d" >>
CANADA == << "C", "a", "n", "a", "d", "a" >>

\* sorted(S) for a set of strings
RECURSIVE sorted_set(_)
sorted_set(T) ==
  IF T = {} THEN << >>
  ELSE LET m == CHOOSE m \in T : \A t \in T : t = m \/ StrLess(m, t)
       IN  << m >> \o sorted_set(T \ {m})

(***************************************************************************)
(* Field normalizers (Block 3.0 / Block 3 helpers, ai_nurse_scr.utils)     *)
(***************************************************************************)

\* a value that is not a string and not None: the number 10
IntValue == << "10:int" >>

\* isinstance(x, str)
IsStr(x) == x \notin { NoneValue, IntValue }

\* the strings matched by ^(https?://(dx\.)?doi\.org/)
doi_url_prefixes ==
  { HTTP_DOI,
    HTTPS_DOI,
    HTTP_DX_DOI,
    HTTPS_DX_DOI }

\* re.sub(r"^(https?://(dx\.)?doi\.org/)", "", x): at most one prefix matches
strip_doi_prefix(x) ==
  IF \E p \in doi_url_prefixes : StartsWith(x, p)
  THEN DropFirst(x, Len(CHOOSE p \in doi_url_prefixes : StartsWith(x, p)))
  ELSE x

\* normalize_doi of the notebook: "" for a falsy value or a value that is not
\* a string, else strip, lower, delete blanks, remove the URL prefix, delete
\* whitespace
normalize_doi(x) ==
  IF x = << >> \/ ~IsStr(x) THEN << >>
  ELSE RemoveSpaces(strip_doi_prefix(RemoveBlanks(StrLower(StrStrip(x)))))

\* ai_nurse_scr.utils.normalize_doi: "" for a falsy value or a value that is
\* not a string, else strip, lower, remove the URL prefix, delete blanks,
\* delete whitespace
utils_normalize_doi(x) ==
  IF x = << >> \/ ~IsStr(x) THEN << >>
  ELSE RemoveSpaces(RemoveBlanks(strip_doi_prefix(StrLower(StrStrip(x)))))

\* what a call returns when it raises AttributeError
AttributeError == << "AttributeError" >>

\* src.paperqa2.utils.normalize_doi: doi.strip() on a value that is not a
\* string raises; else strip, lower, remove the URL prefix
paperqa2_normalize_doi(doi) ==
  IF ~IsStr(doi) THEN AttributeError
  ELSE strip_doi_prefix(StrLower(StrStrip(doi)))

\* re.split(r";|,|&| and ", v)
RECURSIVE split_author_acc(_, _)
split_author_acc(s, cur) ==
  IF s = << >> THEN << cur >>
  ELSE IF s[1] \in {";", ",", "&"} THEN << cur >> \o split_author_acc(Tail(s), << >>)
  ELSE IF StartsWith(s, AND_WORD)
       THEN << cur >> \o split_author_acc(DropFirst(s, Len(AND_WORD)), << >>)
  ELSE split_author_acc(Tail(s), Append(cur, s[1]))

\* norm_piece of normalize_author
norm_piece(x) ==
  IF x = << >> THEN << >> ELSE StrStrip(CollapseSpaces(RemoveCommas(x)))

\* the loop "if k.lower() and k.lower() not in seen: out.append(k)"
RECURSIVE dedup_lower(_, _)
dedup_lower(q, seen) ==
  IF q = << >> THEN << >>
  ELSE LET k == StrLower(Head(q))
       IN  IF k # << >> /\ k \notin seen
           THEN << Head(q) >> \o dedup_lower(Tail(q), seen \cup {k})
           ELSE dedup_lower(Tail(q), seen)

\* list(dict.fromkeys(names))
RECURSIVE dedup_exact(_, _)
dedup_exact(q, seen) ==
  IF q = << >> THEN << >>
  ELSE IF Head(q) \in seen THEN dedup_exact(Tail(q), seen)
  ELSE << Head(q) >> \o dedup_exact(Tail(q), seen \cup {Head(q)})

SEP == << ";", " " >>

\* normalize_author (string input)
normalize_author(raw) ==
  IF raw = << >> THEN << >>
  ELSE LET pieces == SelectSeq(split_author_acc(raw, << >>), LAMBDA w : StrStrip(w) # << >>)
           flat == [i \in 1..Len(pieces) |-> norm_piece(pieces[i])]
       IN  StrJoin(dedup_lower(flat, {}), SEP)

\* ISO_MAP.get(v_lc), the empty string for None
ISO_MAP(v_lc) ==
  IF v_lc = << "u", "s" >> THEN UNITED_STATES
  ELSE IF v_lc \in { << "g", "b" >>, << "u", "k" >> } THEN UNITED_KINGDOM
  ELSE IF v_lc = << "a", "u" >> THEN AUSTRALIA
  ELSE IF v_lc = << "n", "z" >> THEN NEW_ZEALAND
  ELSE IF v_lc = << "c", "a" >> THEN CANADA
  ELSE << >>

\* the loop "for v in vals" of normalize_country
RECURSIVE country_names(_, _)
country_names(vals, names) ==
  IF vals = << >> THEN names
  ELSE LET v == Head(vals)
           n == ISO_MAP(StrLower(v))
           c == StrStrip(SelectSeq(v, LAMBDA ch : IsAlpha(ch) \/ ch = " "))
       IN  IF n # << >> THEN country_names(Tail(vals), Append(names, n))
           ELSE IF c # << >> /\ StrLower(c) \notin { StrLower(names[i]) : i \in 1..Len(names) }
                THEN country_names(Tail(vals), Append(names, c))
                ELSE country_names(Tail(vals), names)

\* normalize_country (string input)
normalize_country(raw) ==
  IF raw = << >> THEN << >>
  ELSE LET parts == SplitOn(raw, {";"})
           kept == SelectSeq(parts, LAMBDA w : StrStrip(w) # << >>)
           vals == [i \in 1..Len(kept) |-> StrStrip(kept[i])]
       IN  StrJoin(dedup_exact(country_names(vals, << >>), {}), SEP)

\* sorted(uniq, key=str.lower): a stable sort, the first of the smallest keys first
RECURSIVE sorted_by_lower(_)
sorted_by_lower(q) ==
  IF q = << >> THEN << >>
  ELSE LET i == CHOOSE i \in 1..Len(q) :
                  /\ \A j \in 1..Len(q) : ~StrLess(StrLower(q[j]), StrLower(q[i]))
                  /\ \A j \in 1..(i - 1) : StrLess(StrLower(q[i]), StrLower(q[j]))
       IN  << q[i] >> \o sorted_by_lower(SubSeq(q, 1, i - 1) \o SubSeq(q, i + 1, Len(q)))

\* normalize_keywords (string input)
normalize_keywords(raw) ==
  IF raw = << >> THEN << >>
  ELSE LET parts == SplitOn(raw, {";", ",", "/", "|"})
           kept == SelectSeq(parts, LAMBDA k : StrStrip(k) # << >>)
           flat == [i \in 1..Len(kept) |-> StrStrip(kept[i])]
       IN  StrJoin(sorted_by_lower(dedup_lower(flat, {})), SEP)

(***************************************************************************)
(* Matchers of ai_nurse_scr.extraction                                     *)
(***************************************************************************)

\* clean_str: lower-case, keep alphanumerics and whitespace, delete blanks
clean_str(txt) ==
  RemoveBlanks(SelectSeq(StrLower(txt), LAMBDA c : IsAlnum(c) \/ IsSpace(c)))

\* str(a).replace(";", " ").replace(",", " ")
semicolons_to_blanks(x) ==
  [i \in 1..Len(x) |-> IF x[i] \in {";", ","} THEN " " ELSE x[i]]

\* sorted({x.strip() for x in str(a).replace(";", " ").replace(",", " ").lower().split() if x})
keyword_tokens(a) ==
  LET words == SplitWhitespace(StrLower(semicolons_to_blanks(a)))
      toks == { StrStrip(words[i]) : i \in { j \in 1..Len(words) : words[j] # << >> } }
  IN  sorted_set(toks)

\* a variant of approx_match whose keyword branch skips .lower()
approx_match_cased(a, b, field) ==
  LET tokens(x) == sorted_set(Range(SplitWhitespace(semicolons_to_blanks(x))))
  IN  IF a = NoneValue \/ b = NoneValue THEN FALSE
      ELSE IF field = "doi" THEN utils_normalize_doi(a) = utils_normalize_doi(b)
      ELSE IF field \in {"author_keywords"} THEN tokens(a) = tokens(b)
      ELSE clean_str(a) = clean_str(b)

\* approx_match(a, b, field)
approx_match(a, b, field) ==
  IF a = NoneValue \/ b = NoneValue THEN FALSE
  ELSE IF field = "doi" THEN utils_normalize_doi(a) = utils_normalize_doi(b)
  ELSE IF field \in {"author_keywords"} THEN keyword_tokens(a) = keyword_tokens(b)
  ELSE clean_str(a) = clean_str(b)

(***************************************************************************)
(* Vote values and manifests the model is run on                           *)
(***************************************************************************)

ValEmpty == << >>
ValA == << "a", "b", "c", "d" >>
\* difflib ratio to ValA is 8/9: close enough for title (88) and author (82)
ValA1 == << "a", "b", "c", "d", "e" >>
\* difflib ratio to ValA is 6/7: close enough for author only
ValS == << "a", "b", "c" >>
\* equal to ValA after strip().lower(), and after norm_str
ValU == << " ", "A", "B", "C", "D" >>
\* equal to ValA after norm_str only
ValP == << "a", "b", "-", "c", "d" >>
\* unrelated to ValA
ValC == << "w", "x", "y", "z" >>

\* the votes each method may cast in the manifests of SpecResolve
VoteMaps ==
  { [llm_raw |-> l, grobid |-> g, fitz |-> z, crossref |-> c, openalex |-> o, filename |-> n] :
      l \in {ValEmpty, ValA, MISSING},
      g \in {ValEmpty, ValA, MISSING, ValC},
      z \in {ValEmpty, ValU},
      c \in {ValEmpty, ValP, ValC},
      o \in {ValEmpty, ValA1, ValS},
      n \in {ValEmpty, ValA, ValS} }

\* number of rows of extraction_manifest.csv
NumRecords == 2
Rows == 0 .. (NumRecords - 1)
FieldSet == Range(fields)

(***************************************************************************)
(* State of a Block 4 run                                                  *)
(***************************************************************************)
VARIABLES
  pc,                \* position in the script
  cur,               \* <<row, index into fields>> of the consensus loop
  df_votes,          \* df[f"{field}_votes"] per row
  df_final,          \* df[f"{field}_final"] per row, NaN where never assigned
  df_src,            \* df[f"{field}_src"] per row
  branch_taken,      \* per (row, field): the branch of the loop body that ran
  autofix_counter,   \* Counter of auto-decided fields
  needs_manual_idx,  \* list of (idx, field) left to the reviewer
  needs_review,      \* df["needs_review"]
  review_reason,     \* df["review_reason"], as the list of flagged fields
  reviewer_name,     \* the name typed at the custody prompt
  rpos,              \* index of the next item of the review session
  shown,             \* the last [REVIEW] prompt printed: row, field, candidates
  corrections,       \* list of corrections of this run
  final_approve,     \* the answer to the final check
  files,             \* final_manifest.csv and review_correction_log.json
  audit_log,         \* reviewer_block4_audit.jsonl, one entry per line
  fn_pc,             \* position of a run of a helper or of another block
  fn_in,             \* what that run is given: arguments, configuration, documents
  fn_out             \* what it has computed so far: locals, counters, outputs

vars == << pc, cur, df_votes, df_final, df_src, branch_taken, autofix_counter,
           needs_manual_idx, needs_review, review_reason, reviewer_name, rpos,
           shown, corrections, final_approve, files, audit_log,
           fn_pc, fn_in, fn_out >>

fn_vars == << fn_pc, fn_in, fn_out >>

vars_block4 == << pc, cur, df_votes, df_final, df_src, branch_taken, autofix_counter,
                  needs_manual_idx, needs_review, review_reason, reviewer_name, rpos,
                  shown, corrections, final_approve, files, audit_log >>

session_vars == << reviewer_name, rpos, shown, corrections, final_approve, files, audit_log >>

NoPrompt == [row |-> -1, field |-> "none", candidates |-> empty_votes]
NoFiles == [written |-> FALSE]
NoCall == [fn |-> "none"]

\* the variables of Block 4 at script position p, before the consensus loop
Block4At(p, frame) ==
  /\ pc = p
  /\ cur = << 0, 1 >>
  /\ df_votes = frame
  /\ df_final = [r \in Rows |-> [f \in FieldSet |-> NaN]]
  /\ df_src = [r \in Rows |-> [f \in FieldSet |-> NoSrc]]
  /\ branch_taken = [r \in Rows |-> [f \in FieldSet |-> "none"]]
  /\ autofix_counter = [f \in FieldSet |-> 0]
  /\ needs_manual_idx = << >>
  /\ needs_review = [r \in Rows |-> FALSE]
  /\ review_reason = [r \in Rows |-> << >>]
  /\ reviewer_name = "none"
  /\ rpos = 0
  /\ shown = NoPrompt
  /\ corrections = << >>
  /\ final_approve = "none"
  /\ files = NoFiles
  /\ audit_log = << >>

\* the state after pd.read_csv and robust_json_parse, given the vote columns
Loaded(frame) ==
  /\ Block4At("consensus", frame)
  /\ fn_pc = "off"
  /\ fn_in = NoCall
  /\ fn_out = NoCall

\* vote maps of two worked cases: a DOI given bare in upper case by the anchor
\* and as a doi.org URL by crossref (and the same with crossref's vote bare),
\* and an author named by the anchor and, shorter, by the file name
DoiUpper == << "1", "0", ".", "1", "/", "A", "A", "A" >>
DoiUrlLower == HTTPS_DOI \o << "1", "0", ".", "1", "/", "a", "a", "a" >>
DoiLower == << "1", "0", ".", "1", "/", "a", "a", "a" >>
SmithJ == << "S", "m", "i", "t", "h", " ", "J" >>
Smith == << "S", "m", "i", "t", "h" >>

DoiUrlVotes == [empty_votes EXCEPT !["llm_raw"] = DoiUpper, !["crossref"] = DoiUrlLower]
DoiCaseVotes == [empty_votes EXCEPT !["llm_raw"] = DoiUpper, !["crossref"] = DoiLower]
SmithVotes == [empty_votes EXCEPT !["llm_raw"] = SmithJ, !["filename"] = Smith]

ScenarioVotes == { DoiUrlVotes, DoiCaseVotes, SmithVotes }

\* manifests in which one cell carries any vote map of VoteMaps or of
\* ScenarioVotes and every other cell is blank (robust_json_parse turns a
\* blank cell into empty_votes)
FocusFrames ==
  { [r \in Rows |-> [f \in FieldSet |-> IF r = r0 /\ f = f0 THEN v ELSE empty_votes]] :
      r0 \in Rows, f0 \in FieldSet, v \in VoteMaps \cup ScenarioVotes }

InitResolve == \E frame \in FocusFrames : Loaded(frame)

\* a variant of the loop body that queues a field once per run rather than
\* once per record
ConsensusStep_once_per_field ==
  /\ pc = "consensus"
  /\ LET i == cur[1]
         f == fields[cur[2]]
         d == consensus(df_votes[i][f], f)
     IN  IF \E m \in Range(methods) : m \notin DOMAIN df_votes[i][f]
         THEN \* votes[m] raises KeyError
              /\ pc' = "KeyError_votes"
              /\ UNCHANGED << cur, branch_taken, df_final, df_src, autofix_counter,
                              needs_manual_idx >>
         ELSE
         /\ branch_taken' = [branch_taken EXCEPT ![i][f] = d.branch]
         /\ IF d.branch = "review"
            THEN /\ needs_manual_idx' =
                      IF \E k \in 1..Len(needs_manual_idx) : needs_manual_idx[k][2] = f
                      THEN needs_manual_idx
                      ELSE Append(needs_manual_idx, << i, f >>)
                 /\ UNCHANGED << df_final, df_src, autofix_counter >>
            ELSE /\ df_final' = [df_final EXCEPT ![i][f] = d.final]
                 /\ df_src' = [df_src EXCEPT ![i][f] = d.src]
                 /\ autofix_counter' = [autofix_counter EXCEPT ![f] = @ + 1]
                 /\ UNCHANGED needs_manual_idx
         /\ IF cur[2] < Len(fields)
            THEN cur' = << i, cur[2] + 1 >> /\ pc' = "consensus"
            ELSE IF i + 1 \in Rows
                 THEN cur' = << i + 1, 1 >> /\ pc' = "consensus"
                 ELSE cur' = cur /\ pc' = "flag"
  /\ UNCHANGED << df_votes, needs_review, review_reason, session_vars >>
  /\ UNCHANGED fn_vars

\* one iteration of "for field in fields" inside "for idx, row in df.iterrows()"
ConsensusStep ==
  /\ pc = "consensus"
  /\ LET i == cur[1]
         f == fields[cur[2]]
         d == consensus(df_votes[i][f], f)
     IN  IF \E m \in Range(methods) : m \notin DOMAIN df_votes[i][f]
         THEN \* votes[m] raises KeyError
              /\ pc' = "KeyError_votes"
              /\ UNCHANGED << cur, branch_taken, df_final, df_src, autofix_counter,
                              needs_manual_idx >>
         ELSE
         /\ branch_taken' = [branch_taken EXCEPT ![i][f] = d.branch]
         /\ IF d.branch = "review"
            THEN /\ needs_manual_idx' = Append(needs_manual_idx, << i, f >>)
                 /\ UNCHANGED << df_final, df_src, autofix_counter >>
            ELSE /\ df_final' = [df_final EXCEPT ![i][f] = d.final]
                 /\ df_src' = [df_src EXCEPT ![i][f] = d.src]
                 /\ autofix_counter' = [autofix_counter EXCEPT ![f] = @ + 1]
                 /\ UNCHANGED needs_manual_idx
         /\ IF cur[2] < Len(fields)
            THEN cur' = << i, cur[2] + 1 >> /\ pc' = "consensus"
            ELSE IF i + 1 \in Rows
                 THEN cur' = << i + 1, 1 >> /\ pc' = "consensus"
                 ELSE cur' = cur /\ pc' = "flag"
  /\ UNCHANGED << df_votes, needs_review, review_reason, session_vars >>
  /\ UNCHANGED fn_vars

\* "Second pass: Flag only fields needing review"
FlagReview ==
  /\ pc = "flag"
  /\ needs_review' = [r \in Rows |-> \E k \in 1..Len(needs_manual_idx) : needs_manual_idx[k][1] = r]
  /\ review_reason' =
       [r \in Rows |-> SelectSeq(fields, LAMBDA f : << r, f >> \in Range(needs_manual_idx))]
  /\ pc' = "ask"
  /\ UNCHANGED << cur, df_votes, df_final, df_src, branch_taken, autofix_counter,
                  needs_manual_idx, session_vars >>
  /\ UNCHANGED fn_vars

NextResolve == ConsensusStep \/ FlagReview

SpecResolve == InitResolve /\ [][NextResolve]_vars

(***************************************************************************)
(* Block 4: loading extraction_manifest.csv                                *)
(***************************************************************************)

\* for m in methods: js.setdefault(m, "")
json_setdefault(js) ==
  [m \in Range(methods) |-> IF m \in DOMAIN js THEN js[m] ELSE << >>]

\* robust_json_parse(val).  A cell val is described by how it reads: "dict" (a
\* dict already), "blank" (NaN, "", "{}", "nan", "None"), "json" (json.loads
\* succeeds), "literal" (json.loads fails, ast.literal_eval succeeds),
\* "unparsable" (both fail); is_dict tells whether the value read is a dict and
\* js is that dict.
robust_json_parse(val) ==
  IF val.form = "dict" THEN val.js
  ELSE IF val.form = "blank" THEN empty_votes
  ELSE IF val.form = "json"
       THEN IF val.is_dict THEN json_setdefault(val.js) ELSE empty_votes
  ELSE IF val.form = "literal"
       THEN IF val.is_dict THEN val.js ELSE empty_votes
  ELSE empty_votes

\* dicts a cell may hold: all six methods, the anchor only, all but filename,
\* no key at all
CellDicts ==
  { [llm_raw |-> ValA, grobid |-> ValC, fitz |-> ValEmpty, crossref |-> ValEmpty,
     openalex |-> ValEmpty, filename |-> ValS],
    [llm_raw |-> ValA],
    [llm_raw |-> ValA, grobid |-> ValA, fitz |-> ValEmpty, crossref |-> ValEmpty,
     openalex |-> ValEmpty],
    << >> }

BlankCell == [form |-> "blank", is_dict |-> FALSE, js |-> << >>]

\* the cells of a {field}_votes column as read by pd.read_csv
RawCells ==
  { BlankCell,
    [form |-> "unparsable", is_dict |-> FALSE, js |-> << >>] }
  \cup { [form |-> fm, is_dict |-> FALSE, js |-> << >>] : fm \in {"json", "literal"} }
  \cup { [form |-> fm, is_dict |-> TRUE, js |-> js] : fm \in {"json", "literal"}, js \in CellDicts }

\* manifests as read: one cell is any cell of RawCells, the others are blank
\* (a column that is absent reads like a column of blank cells)
RawFrames ==
  { [r \in Rows |-> [f \in FieldSet |-> IF r = r0 /\ f = f0 THEN c ELSE BlankCell]] :
      r0 \in Rows, f0 \in FieldSet, c \in RawCells }

InitLoad ==
  /\ \E frame \in RawFrames : Block4At("load", frame)
  /\ fn_pc = "off"
  /\ fn_in = NoCall
  /\ fn_out = NoCall

\* df[col] = df[col].apply(robust_json_parse) for the four vote columns
LoadManifest ==
  /\ pc = "load"
  /\ df_votes' = [r \in Rows |-> [f \in FieldSet |-> robust_json_parse(df_votes[r][f])]]
  /\ pc' = "consensus"
  /\ UNCHANGED << cur, df_final, df_src, branch_taken, autofix_counter, needs_manual_idx,
                  needs_review, review_reason, session_vars >>
  /\ UNCHANGED fn_vars

NextLoad == LoadManifest \/ ConsensusStep \/ FlagReview

SpecLoad == InitLoad /\ [][NextLoad]_vars

(***************************************************************************)
(* Block 4: review session, final check and outputs                        *)
(***************************************************************************)

VM(l, g, z, c, o, n) ==
  [llm_raw |-> l, grobid |-> g, fitz |-> z, crossref |-> c, openalex |-> o, filename |-> n]

\* rows of the manifests of Spec: every field decided automatically; the
\* title in conflict; the title in conflict and no vote at all for the year
RowAuto ==
  [title  |-> VM(ValA, ValEmpty, ValEmpty, ValEmpty, ValA1, ValEmpty),
   author |-> VM(ValA, ValA, ValU, ValEmpty, ValEmpty, ValEmpty),
   year   |-> VM(ValA, ValEmpty, ValEmpty, ValEmpty, ValEmpty, ValEmpty),
   doi    |-> VM(ValA, ValEmpty, ValEmpty, ValEmpty, ValEmpty, ValA)]
RowTitle ==
  [RowAuto EXCEPT !["title"] = VM(ValA, ValC, ValEmpty, ValEmpty, ValEmpty, ValS)]
RowTwo ==
  [RowTitle EXCEPT !["year"] = empty_votes]

SampleRows == { RowAuto, RowTitle, RowTwo }

Init == \E frame \in [Rows -> SampleRows] : Loaded(frame)

ReviewerNames == { "rv" }

\* what the reviewer may type at "Choose value for ...": MANUAL, a letter of
\* a method with a vote, a lower-case letter, the last letter, a letter past
\* the last method, nothing
Answers ==
  { << "m", "a", "n", "u", "a", "l" >>, << "A" >>, << "b" >>, << "F" >>, << "G" >>, << >> }

\* what the reviewer may type at "Manual value for ..."
ManualValues == { << "o", "k" >> }

\* str.upper() on one character
UpperChar(c) == IF c \in LowerLetters THEN CharOrder[Ord(c) - 29] ELSE c

\* a variant of the session that steps through every field of a flagged row
RECURSIVE review_items_all_fields(_)
review_items_all_fields(r) ==
  IF r \notin Rows THEN << >>
  ELSE (IF needs_review[r]
        THEN [k \in 1..Len(fields) |-> << r, fields[k] >>]
        ELSE << >>) \o review_items_all_fields(r + 1)

\* the flagged (row, field) pairs in the order the session steps through them:
\* rows of needreview in index order, fields in the order of "fields"
RECURSIVE review_items(_)
review_items(r) ==
  IF r \notin Rows THEN << >>
  ELSE (IF needs_review[r]
        THEN [k \in 1..Len(review_reason[r]) |-> << r, review_reason[r][k] >>]
        ELSE << >>) \o review_items(r + 1)

\* a variant of the prompt that leaves the last method out
val_disp_short(votes) ==
  [m \in Range(methods) |->
     IF m # methods[Len(methods)] /\ votes[m] # << >> THEN votes[m] ELSE MISSING]

\* the candidate lines "[A] method: value" of a prompt
val_disp(votes) ==
  [m \in Range(methods) |-> IF votes[m] # << >> THEN votes[m] ELSE MISSING]

\* custody prompt and "Do you wish to review/correct flagged fields now?"
AskReview ==
  /\ pc = "ask"
  /\ \E name \in ReviewerNames, result_decision \in {"y", "n"} :
       /\ reviewer_name' = name
       /\ corrections' = << >>
       /\ IF result_decision = "y" /\ (\E r \in Rows : needs_review[r])
          THEN pc' = "review" /\ rpos' = 1
          ELSE pc' = "summary" /\ rpos' = rpos
  /\ UNCHANGED << cur, df_votes, df_final, df_src, branch_taken, autofix_counter,
                  needs_manual_idx, needs_review, review_reason, shown,
                  final_approve, files, audit_log >>
  /\ UNCHANGED fn_vars

\* one prompt of the correction loop and the reviewer's answer to it
ReviewStep ==
  /\ pc = "review"
  /\ LET item == review_items(0)[rpos]
         r == item[1]
         f == item[2]
         votes == df_votes[r][f]
     IN  /\ shown' = [row |-> r, field |-> f, candidates |-> val_disp(votes)]
         /\ \E sel \in Answers :
              IF StrLower(sel) = << "m", "a", "n", "u", "a", "l" >>
              THEN \E val \in ManualValues :
                     /\ df_final' = [df_final EXCEPT ![r][f] = val]
                     /\ df_src' = [df_src EXCEPT ![r][f] = "manual"]
                     /\ corrections' = Append(corrections,
                          [pdf_id |-> r, field |-> f, chosen |-> val, src |-> "manual",
                           reviewer |-> reviewer_name])
              ELSE IF /\ Len(sel) = 1
                      /\ Ord("A") <= Ord(UpperChar(sel[1]))
                      /\ Ord(UpperChar(sel[1])) < Ord("A") + Len(methods)
              THEN LET chosen_method == methods[Ord(UpperChar(sel[1])) - Ord("A") + 1]
                       val == votes[chosen_method]
                   IN  /\ df_final' = [df_final EXCEPT ![r][f] = val]
                       /\ df_src' = [df_src EXCEPT ![r][f] = chosen_method]
                       /\ corrections' = Append(corrections,
                            [pdf_id |-> r, field |-> f, chosen |-> val, src |-> chosen_method,
                             reviewer |-> reviewer_name])
              ELSE UNCHANGED << df_final, df_src, corrections >>
  /\ IF rpos < Len(review_items(0))
     THEN rpos' = rpos + 1 /\ pc' = "review"
     ELSE rpos' = rpos /\ pc' = "summary"
  /\ UNCHANGED << cur, df_votes, branch_taken, autofix_counter, needs_manual_idx,
                  needs_review, review_reason, reviewer_name, final_approve, files,
                  audit_log >>
  /\ UNCHANGED fn_vars

\* "SUMMARY: Final Manifest Table": df[finalcols] raises KeyError when a
\* {field}_final column was never created, that is when no row was assigned one
PrintSummary ==
  /\ pc = "summary"
  /\ IF \E f \in FieldSet : \A r \in Rows : df_final[r][f] = NaN
     THEN pc' = "KeyError"
     ELSE pc' = "approve"
  /\ UNCHANGED << cur, df_votes, df_final, df_src, branch_taken, autofix_counter,
                  needs_manual_idx, needs_review, review_reason, session_vars >>
  /\ UNCHANGED fn_vars

\* "[REVIEWER FINAL CHECK] Submit this manifest as LOCKED for submission?"
FinalCheck ==
  /\ pc = "approve"
  /\ \E a \in {"y", "n"} : final_approve' = a
  /\ pc' = "write"
  /\ UNCHANGED << cur, df_votes, df_final, df_src, branch_taken, autofix_counter,
                  needs_manual_idx, needs_review, review_reason, reviewer_name, rpos,
                  shown, corrections, files, audit_log >>
  /\ UNCHANGED fn_vars

\* sha256_file of a written file: a digest that identifies the content
sha256_file(content) == << "sha256", content >>

\* "Write reviewer-locked manifest/log (hash-logged)" and the audit log line
WriteOutputs ==
  /\ pc = "write"
  /\ LET manifest == [final |-> df_final, src |-> df_src,
                      needs_review |-> needs_review, review_reason |-> review_reason]
         log == [reviewer |-> reviewer_name, changes |-> corrections,
                 final_approved |-> (final_approve = "y")]
     IN  /\ files' = [written |-> TRUE, final_manifest |-> manifest, review_log |-> log]
         /\ audit_log' = Append(audit_log,
              [step |-> "block4_reviewer_approval",
               hashes |-> << sha256_file(manifest), sha256_file(log) >>,
               reviewer |-> reviewer_name,
               final_approved |-> (final_approve = "y")])
  /\ pc' = "done"
  /\ UNCHANGED << cur, df_votes, df_final, df_src, branch_taken, autofix_counter,
                  needs_manual_idx, needs_review, review_reason, reviewer_name, rpos,
                  shown, corrections, final_approve >>
  /\ UNCHANGED fn_vars

Next ==
  \/ ConsensusStep
  \/ FlagReview
  \/ AskReview
  \/ ReviewStep
  \/ PrintSummary
  \/ FinalCheck
  \/ WriteOutputs

Spec == Init /\ [][Next]_vars

(***************************************************************************)
(* Block 4 run again on the same extraction manifest                       *)
(***************************************************************************)

\* number of runs of Block 4 on the same operational directory
MaxRuns == 2

\* the manifest of the runs: one record with its title in conflict, the other
\* records decided automatically
InitSessions ==
  Loaded([r \in Rows |-> IF r = 0 THEN RowTitle ELSE RowAuto])

\* the script is started again: extraction_manifest.csv is read again and
\* every variable of the script starts afresh; the files written by the
\* earlier run and the audit log are still on disk
Rerun ==
  /\ pc = "done"
  /\ Len(audit_log) < MaxRuns
  /\ pc' = "consensus"
  /\ cur' = << 0, 1 >>
  /\ df_final' = [r \in Rows |-> [f \in FieldSet |-> NaN]]
  /\ df_src' = [r \in Rows |-> [f \in FieldSet |-> NoSrc]]
  /\ branch_taken' = [r \in Rows |-> [f \in FieldSet |-> "none"]]
  /\ autofix_counter' = [f \in FieldSet |-> 0]
  /\ needs_manual_idx' = << >>
  /\ needs_review' = [r \in Rows |-> FALSE]
  /\ review_reason' = [r \in Rows |-> << >>]
  /\ reviewer_name' = "none"
  /\ rpos' = 0
  /\ shown' = NoPrompt
  /\ corrections' = << >>
  /\ final_approve' = "none"
  /\ UNCHANGED << df_votes, files, audit_log >>
  /\ UNCHANGED fn_vars

NextSessions == Next \/ Rerun

SpecSessions == InitSessions /\ [][NextSessions]_vars

(***************************************************************************)
(* Calls of the normalizers and of the matchers                            *)
(***************************************************************************)

\* longest input of a normalizer, counted in parts
MaxParts == 4

\* the strings made of at most n parts
RECURSIVE Concats(_, _)
Concats(parts, n) ==
  IF n = 0 THEN { << >> }
  ELSE LET shorter == Concats(parts, n - 1)
       IN  shorter \cup { x \o p : x \in shorter, p \in parts }

normalizers ==
  { "normalize_doi", "utils.normalize_doi", "normalize_author", "normalize_country",
    "normalize_keywords" }

\* the parts the inputs of each normalizer are made of
NormParts(fn) ==
  IF fn \in {"normalize_doi", "utils.normalize_doi"}
  THEN { HTTPS_DOI, HTTP_DX_DOI, << "1", "0" >>, << "A" >>, << " " >>, << "\t" >> }
  ELSE IF fn = "normalize_author"
  THEN { << "a" >>, << "B" >>, AND_WORD, << "\t", "a", "n", "d", " " >>, << ";" >>, << "," >> }
  ELSE IF fn = "normalize_country"
  THEN { << "u" >>, << "S" >>, << "k" >>, << "." >>, << ";" >>, << " " >> }
  ELSE { << "a" >>, << "A" >>, << "b" >>, << ";" >>, << "/" >>, << " " >> }

\* the call fn(x)
normalize(fn, x) ==
  CASE fn = "normalize_doi" -> normalize_doi(x)
    [] fn = "utils.normalize_doi" -> utils_normalize_doi(x)
    [] fn = "normalize_author" -> normalize_author(x)
    [] fn = "normalize_country" -> normalize_country(x)
    [] fn = "normalize_keywords" -> normalize_keywords(x)

\* no manifest is being resolved while a helper is called on its own
Block4Off == Block4At("off", [r \in Rows |-> [f \in FieldSet |-> empty_votes]])

InitNorm ==
  /\ Block4Off
  /\ fn_pc = "call"
  /\ \E fn \in normalizers : \E x \in Concats(NormParts(fn), MaxParts) :
       fn_in = [fn |-> fn, x |-> x]
  /\ fn_out = NoCall

\* y = normalize(x)
Normalize ==
  /\ fn_pc = "call"
  /\ fn_out' = [fn |-> fn_in.fn, once |-> normalize(fn_in.fn, fn_in.x)]
  /\ fn_pc' = "again"
  /\ UNCHANGED << fn_in, vars_block4 >>

\* z = normalize(y)
NormalizeAgain ==
  /\ fn_pc = "again"
  /\ fn_out' = [fn |-> fn_in.fn, once |-> fn_out.once,
                twice |-> normalize(fn_in.fn, fn_out.once)]
  /\ fn_pc' = "returned"
  /\ UNCHANGED << fn_in, vars_block4 >>

NextNorm == Normalize \/ NormalizeAgain

SpecNorm == InitNorm /\ [][NextNorm]_vars

\* longest keyword string given to a matcher, counted in parts
MaxKeywordParts == 3

KeywordParts ==
  { << "a" >>, << "B" >>, << "b" >>, << ";" >>, << "," >>, << " " >>, << "\t" >>,
    << "/" >>, << "|" >> }

\* the keyword strings a keyword string is compared with
KeywordProbes ==
  { << >>, << "a" >>, << "a", " ", "b" >>, << "b", ";", "a" >>, << "A", ",", "B" >>, << "a", "/", "b" >>, << "b", "|", "a" >>, << "a", "b" >> }

\* the values of the other fields given to a matcher
MatchValues ==
  { NoneValue, ValEmpty, ValA, ValU, ValP, ValC, << " " >>, << "-" >>, HTTPS_DOI \o << "a", "b", "c", "d" >>, << "a", "b", " ", "c", "d" >> }

match_fields == { "title", "author", "year", "doi", "country", "author_keywords" }

MatchCalls ==
  { [a |-> a, b |-> b, field |-> "author_keywords"] :
      a \in Concats(KeywordParts, MaxKeywordParts), b \in KeywordProbes }
  \cup
  { [a |-> a, b |-> b, field |-> f] :
      a \in MatchValues, b \in MatchValues, f \in match_fields }

InitMatch ==
  /\ Block4Off
  /\ fn_pc = "call"
  /\ \E c \in MatchCalls : fn_in = [fn |-> "match", a |-> c.a, b |-> c.b, field |-> c.field]
  /\ fn_out = NoCall

\* close_enough(a, b, field) and approx_match(a, b, field) on the same arguments
Match ==
  /\ fn_pc = "call"
  /\ fn_in.fn = "match"
  /\ fn_out' = [fn |-> "match",
                close_enough |-> close_enough(fn_in.a, fn_in.b, fn_in.field),
                approx_match |-> approx_match(fn_in.a, fn_in.b, fn_in.field)]
  /\ fn_pc' = "returned"
  /\ UNCHANGED << fn_in, vars_block4 >>

NextMatch == Match

SpecMatch == InitMatch /\ [][NextMatch]_vars

(***************************************************************************)
(* Null / blank counts of Block 3.7 and of Block 3                         *)
(***************************************************************************)

NULL_WORD == << "n", "u", "l", "l" >>
NONE_WORD == << "n", "o", "n", "e" >>

\* Block 3.7, Table 1: the test under which nullcount.loc[f, m] is incremented
nullcount_test(val) ==
  \/ val \in { << >>, NoneValue }
  \/ StrStrip(val) = << >>
  \/ StrLower(StrStrip(val)) = NONE_WORD

\* Block 3: method_outputs[m][f] after the normalization loop
method_output(orig, f) ==
  LET x == IF orig = NoneValue THEN << >> ELSE orig
  IN  IF f = "doi" THEN normalize_doi(x)
      ELSE IF f = "author" THEN normalize_author(x)
      ELSE IF f = "country" THEN normalize_country(x)
      ELSE IF f = "author_keywords" THEN normalize_keywords(x)
      ELSE IF x # << >> /\ x # NULL_WORD THEN StrStrip(x) ELSE << >>

\* Block 3: the test under which method_null_counts[m][f] is incremented
method_null_test(val) == val = << >> \/ StrLower(val) = NULL_WORD

\* the values one method gives for one field, record by record
NullValues ==
  { << >>, NoneValue, << " " >>, NULL_WORD, << "N", "U", "L", "L" >>, NONE_WORD, << "N", "o", "n", "e" >>, ValA }

null_count_fields == { "title", "doi", "author", "country", "author_keywords" }

InitNullCount ==
  /\ Block4Off
  /\ fn_pc = "call"
  /\ \E f \in null_count_fields, vals \in [Rows -> NullValues] :
       fn_in = [fn |-> "null_counts", field |-> f, vals |-> vals]
  /\ fn_out = [fn |-> "null_counts", done |-> 0, nullcount |-> 0, method_null_counts |-> 0]

\* one record of "for pdf in pdfs", for one method and one field, in both blocks
CountNulls ==
  /\ fn_pc = "call"
  /\ fn_in.fn = "null_counts"
  /\ LET val == fn_in.vals[fn_out.done]
     IN  fn_out' = [fn |-> "null_counts",
                    done |-> fn_out.done + 1,
                    nullcount |-> fn_out.nullcount + (IF nullcount_test(val) THEN 1 ELSE 0),
                    method_null_counts |->
                      fn_out.method_null_counts
                        + (IF method_null_test(method_output(val, fn_in.field)) THEN 1 ELSE 0)]
  /\ fn_pc' = IF fn_out.done + 1 \in Rows THEN "call" ELSE "returned"
  /\ UNCHANGED << fn_in, vars_block4 >>

NextNullCount == CountNulls

SpecNullCount == InitNullCount /\ [][NextNullCount]_vars

(***************************************************************************)
(* Properties of the consensus step                                        *)
(***************************************************************************)

\* the loop body has run for (r, f)
Processed(r, f) == branch_taken[r][f] # "none"

\* (r, f) was left to the reviewer
Queued(r, f) == << r, f >> \in Range(needs_manual_idx)

\* the methods other than the anchor and filename whose non-empty vote
\* matches the anchor's vote
Corroborators(v, f) ==
  { m \in Range(methods) \ {"llm_raw", "filename"} :
      v[m] # << >> /\ close_enough(v["llm_raw"], v[m], f) }

\* the methods with a vote that is neither empty nor the missing placeholder
NonEmptyVoters(v) == { m \in Range(methods) : v[m] # << >> /\ v[m] # MISSING }

\* C1: when filename is the only method other than the anchor whose vote
\* matches the anchor's vote, the field is not confirmed by the agreement
\* rule: it falls through to the single-source or the unresolved outcome.
C1_FilenameNeverCorroborates ==
  \A r \in Rows, f \in FieldSet :
    ( /\ Processed(r, f)
      /\ close_enough(df_votes[r][f]["llm_raw"], df_votes[r][f]["filename"], f)
      /\ Corroborators(df_votes[r][f], f) = {} )
    => branch_taken[r][f] \in {"single", "review"}

\* C2: for title and author, when a registry vote is close enough to the
\* anchor's vote the field is decided by the registry rule, the final value
\* is the raw vote of a matching registry and the recorded source is the
\* name of that registry.
C2_RegistrySourceNamed ==
  \A r \in Rows, f \in {"title", "author"} :
    ( /\ Processed(r, f)
      /\ \E m \in {"openalex", "crossref"} :
           close_enough(df_votes[r][f]["llm_raw"], df_votes[r][f][m], f) )
    => /\ branch_taken[r][f] = "preferred"
       /\ df_src[r][f] \in {"openalex", "crossref"}
       /\ close_enough(df_votes[r][f]["llm_raw"], df_votes[r][f][df_src[r][f]], f)
       /\ df_final[r][f] = df_votes[r][f][df_src[r][f]]

\* C3: when at least two methods other than the anchor and filename have
\* non-empty votes matching the anchor's vote, the field is decided
\* automatically by a consensus rule and is not queued or flagged for review.
C3_TwoCorroboratorsAutoConsensus ==
  \A r \in Rows, f \in FieldSet :
    ( Processed(r, f) /\ Cardinality(Corroborators(df_votes[r][f], f)) >= 2 )
    => /\ branch_taken[r][f] \in {"preferred", "agreement"}
       /\ df_final[r][f] # NaN
       /\ ~Queued(r, f)
       /\ (pc = "ask" => f \notin Range(review_reason[r]))

C3_Witness ==
  \E r \in Rows, f \in FieldSet :
    /\ pc = "ask"
    /\ Cardinality(Corroborators(df_votes[r][f], f)) >= 2
    /\ branch_taken[r][f] = "agreement"
    /\ df_final[r][f] = df_votes[r][f]["llm_raw"]

\* C4: when exactly one method has a non-empty vote and no agreement rule
\* decided the field, the final value is that vote, the source is that
\* method, and the field is not queued for review.
C4_SingleSource ==
  \A r \in Rows, f \in FieldSet :
    ( /\ Processed(r, f)
      /\ Cardinality(NonEmptyVoters(df_votes[r][f])) = 1
      /\ branch_taken[r][f] \notin {"preferred", "agreement"} )
    => LET m == CHOOSE m \in NonEmptyVoters(df_votes[r][f]) : TRUE
       IN  /\ branch_taken[r][f] = "single"
           /\ df_final[r][f] = df_votes[r][f][m]
           /\ df_src[r][f] = m
           /\ ~Queued(r, f)
           /\ (pc = "ask" => f \notin Range(review_reason[r]))

C4_Witness ==
  \E r \in Rows, f \in FieldSet :
    /\ pc = "ask"
    /\ NonEmptyVoters(df_votes[r][f]) = {"fitz"}
    /\ df_votes[r][f]["grobid"] = MISSING
    /\ branch_taken[r][f] = "single"
    /\ df_src[r][f] = "fitz"

\* C5: a field no automatic rule decides is left with no final value and no
\* source and is queued for review, and the prompt shown for it lists every
\* non-empty vote of the field under its method.
C5_UnresolvedCarriesAllVotes ==
  \A r \in Rows, f \in FieldSet :
    branch_taken[r][f] = "review"
    => /\ Queued(r, f)
       /\ (pc \in {"consensus", "flag", "ask"} =>
             df_final[r][f] = NaN /\ df_src[r][f] = NoSrc)
       /\ (pc \notin {"consensus", "flag"} =>
             needs_review[r] /\ f \in Range(review_reason[r]))
       /\ ((shown.row = r /\ shown.field = f) =>
             \A m \in Range(methods) :
               df_votes[r][f][m] # << >> => shown.candidates[m] = df_votes[r][f][m])

C5_Witness ==
  /\ shown.row \in Rows
  /\ branch_taken[shown.row][shown.field] = "review"
  /\ Cardinality(NonEmptyVoters(df_votes[shown.row][shown.field])) = 3
  /\ shown.candidates["filename"] = ValS

\* C6: when no method has a non-empty vote the field is unresolved and no
\* review item is created for it (its candidates would all be missing).
C6_NoVotesNoReviewItem ==
  \A r \in Rows, f \in FieldSet :
    ( Processed(r, f) /\ NonEmptyVoters(df_votes[r][f]) = {} )
    => branch_taken[r][f] = "review" /\ ~Queued(r, f)

\* C7: after the resolution pass every (record, field) over the eight field
\* names of the system has either a decision or a pending review, never
\* neither and never both.
HasDecision(r, f) == f \in FieldSet /\ df_final[r][f] # NaN
PendingReview(r, f) == f \in FieldSet /\ Queued(r, f)

C7_EveryKnownFieldDecidedOrPending ==
  pc \in {"flag", "ask"}
  => \A r \in Rows, f \in Range(extraction_fields) :
       HasDecision(r, f) # PendingReview(r, f)

(***************************************************************************)
(* Properties of the matchers and of the normalizers                       *)
(***************************************************************************)

MatchReturned == fn_pc = "returned" /\ fn_in.fn = "match"

\* C8: for every field, close_enough and approx_match both return false when
\* either argument is the empty string, also when both are.
C8_EmptyNeverMatches ==
  (MatchReturned /\ (fn_in.a = << >> \/ fn_in.b = << >>))
    => (~fn_out.close_enough /\ ~fn_out.approx_match)

\* C9: each of normalize_doi (both versions), normalize_author,
\* normalize_country and normalize_keywords, applied to its own output,
\* returns that output unchanged.
C9_NormalizersIdempotent ==
  (fn_pc = "returned" /\ fn_in.fn \in normalizers) => fn_out.twice = fn_out.once

\* the lower-cased, trimmed, non-empty tokens of x when tokens are separated
\* by ; , / |
SeparatorTokens(x) ==
  LET pieces == SplitOn(x, {";", ",", "/", "|"})
  IN  { StrLower(StrStrip(pieces[i])) : i \in 1..Len(pieces) } \ { << >> }

\* the lower-cased words of x: the longest runs of characters that are neither
\* ";" nor "," nor whitespace
Words(x) ==
  LET y == StrLower(x)
      sep(i) == y[i] \in {";", ","} \/ IsSpace(y[i])
      runs == { p \in (1..Len(y)) \X (1..Len(y)) :
                  /\ p[1] <= p[2]
                  /\ \A k \in p[1]..p[2] : ~sep(k)
                  /\ (p[1] = 1 \/ sep(p[1] - 1))
                  /\ (p[2] = Len(y) \/ sep(p[2] + 1)) }
  IN  { SubSeq(y, p[1], p[2]) : p \in runs }

KeywordsCompared ==
  /\ MatchReturned
  /\ fn_in.field = "author_keywords"
  /\ fn_in.a # NoneValue
  /\ fn_in.b # NoneValue

\* C10 as stated: two keyword strings are treated as equal by approx_match if
\* and only if their sets of case-insensitive tokens, separated by ; , / |,
\* are identical.
C10_EqualIffSeparatorTokenSets ==
  KeywordsCompared
    => (fn_out.approx_match <=> SeparatorTokens(fn_in.a) = SeparatorTokens(fn_in.b))

\* C10 amended: two keyword strings are treated as equal by approx_match if and
\* only if their sets of lower-cased words are identical, where words are
\* separated by ";", "," or whitespace, whatever the order and the casing.
C10_EqualIffWordSets ==
  KeywordsCompared => (fn_out.approx_match <=> Words(fn_in.a) = Words(fn_in.b))

\* two different strings, different also when lower-cased, one with an
\* upper-case letter, with two words or more, are treated as equal
C10_Witness ==
  /\ KeywordsCompared
  /\ fn_out.approx_match
  /\ Cardinality(Words(fn_in.a)) >= 2
  /\ StrLower(fn_in.a) # StrLower(fn_in.b)
  /\ StrLower(fn_in.a) # fn_in.a

(***************************************************************************)
(* Properties of the worked cases                                          *)
(***************************************************************************)

\* C11: for field doi with the anchor voting "10.1/AAA", crossref voting
\* "https://doi.org/10.1/aaa" and no other vote, the field is decided by
\* agreement with final value "10.1/aaa" and source crossref.
C11_DoiUrlPrefixAgrees ==
  \A r \in Rows :
    (Processed(r, "doi") /\ df_votes[r]["doi"] = DoiUrlVotes)
      => /\ branch_taken[r]["doi"] \in {"preferred", "agreement"}
         /\ df_final[r]["doi"] = DoiLower
         /\ df_src[r]["doi"] = "crossref"

\* C12: when the anchor and filename are the only methods with a non-empty
\* vote for the author field, the anchor's vote is chosen by the
\* single-source rule with source llm_raw; the field is neither decided by
\* agreement nor left to the reviewer.
C12_AnchorAndFilenameSingleSource ==
  \A r \in Rows :
    (Processed(r, "author")
       /\ NonEmptyVoters(df_votes[r]["author"]) = {"llm_raw", "filename"})
      => /\ branch_taken[r]["author"] = "single"
         /\ df_final[r]["author"] = df_votes[r]["author"]["llm_raw"]
         /\ df_src[r]["author"] = "llm_raw"
         /\ ~Queued(r, "author")

(***************************************************************************)
(* Properties of the resolution pass as a whole                            *)
(***************************************************************************)

\* the decision of the pass for (r, f): value, source, rule, and whether the
\* pair was left to the reviewer
Decision(r, f) == << df_final[r][f], df_src[r][f], branch_taken[r][f], Queued(r, f) >>

InResolutionPass == pc \in {"consensus", "flag", "ask"}

\* two records with the same votes for a field get the same decision
SameVotesSameDecision ==
  InResolutionPass =>
    \A r1 \in Rows, r2 \in Rows, f \in FieldSet :
      (Processed(r1, f) /\ Processed(r2, f) /\ df_votes[r1][f] = df_votes[r2][f])
        => Decision(r1, f) = Decision(r2, f)

\* processing another (record, field) leaves a decision already made as it is
DecisionKept ==
  InResolutionPass =>
    \A r \in Rows, f \in FieldSet :
      Processed(r, f) => (df_final'[r][f] = df_final[r][f]
                          /\ df_src'[r][f] = df_src[r][f]
                          /\ branch_taken'[r][f] = branch_taken[r][f]
                          /\ (<< r, f >> \in Range(needs_manual_idx'))
                               = (<< r, f >> \in Range(needs_manual_idx)))

\* C13: the decision of the resolution pass for a (record, field) depends on
\* that field's votes only: records with identical votes for a field get
\* identical decisions whatever the other records and the position in the
\* manifest, and a decision made is not changed by the processing of the
\* other records.
C13_DecisionDependsOnVotesOnly == []SameVotesSameDecision /\ [][DecisionKept]_vars

\* two records that differ elsewhere have the same conflicting title votes and
\* both titles are left to the reviewer
C13_Witness ==
  /\ pc = "ask"
  /\ \E r1 \in Rows, r2 \in Rows :
       /\ r1 # r2
       /\ df_votes[r1] # df_votes[r2]
       /\ df_votes[r1]["title"] = df_votes[r2]["title"]
       /\ Queued(r1, "title")
       /\ Queued(r2, "title")

\* C14: whatever the cells of the vote columns hold (unparsable text, a value
\* that is not a mapping, a mapping without the keys of some methods), the
\* resolution pass does not abort: no lookup of a method's vote fails.
C14_ResolutionNeverAborts == pc # "KeyError_votes"

(***************************************************************************)
(* Properties of the review session                                        *)
(***************************************************************************)

\* (r, f) is flagged as needing review in the manifest
Flagged(r, f) == needs_review[r] /\ f \in Range(review_reason[r])

\* C15: once the reviewer has submitted a choice for a pending (record,
\* field), the pair is no longer flagged as needing review, and its final
\* value and source are the ones chosen.
C15_SubmittedNoLongerPending ==
  \A k \in 1..Len(corrections) :
    LET c == corrections[k]
    IN  /\ ~Flagged(c.pdf_id, c.field)
        /\ df_final[c.pdf_id][c.field] = c.chosen
        /\ df_src[c.pdf_id][c.field] = c.src

\* a step of the session changes the final value or the source of pending
\* pairs only, and logs a correction for a pending pair only
ReviewTouchesPendingOnly ==
  pc \notin {"consensus", "load"} =>
    /\ \A r \in Rows, f \in FieldSet :
         (df_final'[r][f] # df_final[r][f] \/ df_src'[r][f] # df_src[r][f])
           => (Queued(r, f) /\ Flagged(r, f))
    /\ \A k \in 1..Len(corrections') :
         Queued(corrections'[k].pdf_id, corrections'[k].field)

PairHistory(fl, r, f) ==
  IF fl.written
  THEN SelectSeq(fl.review_log.changes, LAMBDA c : c.pdf_id = r /\ c.field = f)
  ELSE << >>

\* the outputs are written over outputs of an earlier run
Rewritten == files.written /\ files' # files

\* C17: when a later run writes its outputs, every decision the reviewer
\* submitted in the earlier run is still in the review log and is still the
\* final value and source of its (record, field) in the manifest, and a pair
\* that was flagged and left without a value is flagged again.
C17_EarlierSessionKept ==
  [][Rewritten =>
       /\ \A k \in 1..Len(files.review_log.changes) :
            LET c == files.review_log.changes[k]
            IN  /\ c \in Range(files'.review_log.changes)
                /\ files'.final_manifest.final[c.pdf_id][c.field] = c.chosen
                /\ files'.final_manifest.src[c.pdf_id][c.field] = c.src
       /\ \A r \in Rows, f \in FieldSet :
            (f \in Range(files.final_manifest.review_reason[r])
               /\ files.final_manifest.final[r][f] = NaN)
              => f \in Range(files'.final_manifest.review_reason[r])]_vars

\* C18: the records of a run are only ever added to: every line of the audit
\* log stays where it is and as it is, and the logged history of a (record,
\* field) never gets shorter.
C18_RecordsAppendOnly ==
  [][/\ Len(audit_log') >= Len(audit_log)
     /\ SubSeq(audit_log', 1, Len(audit_log)) = audit_log
     /\ \A r \in Rows, f \in FieldSet :
          Len(PairHistory(files', r, f)) >= Len(PairHistory(files, r, f))]_vars

\* C19: every line of the audit log after the first holds the hash of the
\* line before it.
C19_HashChain ==
  \A k \in 2..Len(audit_log) : sha256_file(audit_log[k - 1]) \in Range(audit_log[k].hashes)

(***************************************************************************)
(* Properties of the null counts                                           *)
(***************************************************************************)

\* empty once trimmed, or the word null or none in any case
CanonicalEmpty(v) ==
  v = NoneValue \/ StrLower(StrStrip(v)) \in { << >>, NULL_WORD, NONE_WORD }

\* C20: for a method and a field, both null counts are exactly the number of
\* records whose value is canonical-empty (empty, or null / none in any case).
C20_NullCountsCanonicalEmpty ==
  (fn_pc = "returned" /\ fn_in.fn = "null_counts")
    => LET n == Cardinality({ r \in Rows : CanonicalEmpty(fn_in.vals[r]) })
       IN  fn_out.nullcount = n /\ fn_out.method_null_counts = n

(***************************************************************************)
(* Match matrices of Block 3 (Tables 5 and 6)                              *)
(***************************************************************************)

\* the body of "for j, f in enumerate(fields)" of Table 5/6: the matrix, if
\* any, whose cell [meth][f] is incremented for one record
table_match(nonllm_val, llm_val, f) ==
  IF nonllm_val = llm_val /\ nonllm_val # << >> THEN "perfect_match"
  ELSE IF approx_match(nonllm_val, llm_val, f) /\ nonllm_val # << >> THEN "approx_match_count"
  ELSE "none"

\* the values a method and the LLM give for one field of one record
TableValues == { << >>, ValA, ValU, ValC, << "-" >> }

table_fields ==
  { "title", "author", "year", "doi", "author_keywords", "country", "source_journal",
    "study_type" }

InitTables ==
  /\ Block4Off
  /\ fn_pc = "call"
  /\ \E f \in table_fields, nonllm \in [Rows -> TableValues], llm \in [Rows -> TableValues] :
       fn_in = [fn |-> "tables", field |-> f, nonllm |-> nonllm, llm |-> llm]
  /\ fn_out = [fn |-> "tables", done |-> 0, perfect_match |-> 0, approx_match_count |-> 0,
               counted |-> << >>]

\* one record of "for i, pdf in enumerate(pdfs)", for one method and one field
CountMatches ==
  /\ fn_pc = "call"
  /\ fn_in.fn = "tables"
  /\ LET i == fn_out.done
         m == table_match(fn_in.nonllm[i], fn_in.llm[i], fn_in.field)
     IN  fn_out' = [fn |-> "tables",
                    done |-> i + 1,
                    perfect_match |-> fn_out.perfect_match + (IF m = "perfect_match" THEN 1 ELSE 0),
                    approx_match_count |->
                      fn_out.approx_match_count + (IF m = "approx_match_count" THEN 1 ELSE 0),
                    counted |-> Append(fn_out.counted, m)]
  /\ fn_pc' = IF fn_out.done + 1 \in Rows THEN "call" ELSE "returned"
  /\ UNCHANGED << fn_in, vars_block4 >>

NextTables == CountMatches

SpecTables == InitTables /\ [][NextTables]_vars

(***************************************************************************)
(* Properties of the match matrices                                        *)
(***************************************************************************)

\* C21: a record adds one to at most one of the exact and the approximate
\* matrix cell of a (method, field), and to neither unless the method's value
\* and the LLM's value for that record and field are both non-empty.
C21_MatchCountedOnceBothNonEmpty ==
  (fn_in.fn = "tables")
    => /\ fn_out.perfect_match + fn_out.approx_match_count <= fn_out.done
       /\ \A k \in 1..Len(fn_out.counted) :
            fn_out.counted[k] # "none"
              => fn_in.nonllm[k - 1] # << >> /\ fn_in.llm[k - 1] # << >>

(***************************************************************************)
(* Block 3: the extraction of one document                                 *)
(***************************************************************************)

\* the two fields of a method's output the model follows
block3_fields == { "doi", "title" }

\* {f: "" for f in fields}
empty_meta == [f \in block3_fields |-> << >>]

method_names == << "llm", "grobid", "fitz", "pdfplumber", "filename", "crossref", "openalex" >>

\* extract_ai_llm_full(first_page, api_key, model): the output and whether a
\* request went to the OpenAI API; answer is what the API sends back
extract_ai_llm_full(api_key, answer) ==
  IF StrStrip(api_key) = << >>
  THEN [meta |-> empty_meta, requested |-> FALSE]
  ELSE [meta |-> answer, requested |-> TRUE]

\* extract_grobid_full(pdf_file): requests.post(grobid_url, ...)
extract_grobid_full(answer) == [meta |-> answer, requested |-> TRUE]

\* extract_fitz_metadata and extract_pdfplumber_metadata: title from the PDF's
\* metadata, meta["doi"] is never set
extract_pdf_metadata(title) == [empty_meta EXCEPT !.title = title]

\* extract_crossref_full(doi, title, author, year)
extract_crossref_full(allow_internet, doi, title, answer) ==
  IF ~allow_internet THEN [meta |-> empty_meta, requested |-> FALSE]
  ELSE IF doi # << >> \/ title # << >> THEN [meta |-> answer, requested |-> TRUE]
  ELSE [meta |-> empty_meta, requested |-> FALSE]

\* extract_openalex_full(doi, title)
extract_openalex_full(allow_internet, doi, title, answer) ==
  IF ~allow_internet THEN [meta |-> empty_meta, requested |-> FALSE]
  ELSE IF doi # << >> \/ title # << >>
       THEN [meta |-> [answer EXCEPT !.doi = IF StartsWith(@, HTTPS_DOI)
                                              THEN DropFirst(@, Len(HTTPS_DOI)) ELSE @],
             requested |-> TRUE]
  ELSE [meta |-> empty_meta, requested |-> FALSE]

\* a or b, on strings
Or(a, b) == IF a # << >> THEN a ELSE b

\* what the sources of one document hold
Block3Dois == { << >>, DoiLower }
Block3TextDois == { << >>, << "1", "0", ".", "2", "/", "b" >> }
Block3Titles == { << >>, ValA }
ApiKeys == { << >>, << "s", "k" >> }

Block3Answers(dois, titles) == { [doi |-> d, title |-> t] : d \in dois, t \in titles }

InitBlock3 ==
  /\ Block4Off
  /\ fn_pc = "extract_ai_llm_full"
  /\ \E allow \in BOOLEAN, key \in ApiKeys,
        llm \in Block3Answers(Block3Dois, Block3Titles),
        grobid \in Block3Answers(Block3Dois, {<< >>}),
        filename \in Block3Answers(Block3Dois, {<< >>}),
        text \in Block3TextDois,
        crossref \in Block3Answers(Block3Dois, {<< >>}),
        openalex \in Block3Answers({ << >>, HTTPS_DOI \o DoiLower }, {<< >>}) :
       fn_in = [fn |-> "block3", allow_internet |-> allow, OPENAI_API_KEY |-> key,
                llm |-> llm, grobid |-> grobid, filename |-> filename, text |-> text,
                crossref |-> crossref, openalex |-> openalex]
  /\ fn_out = [fn |-> "block3", requests |-> << >>,
               llm |-> empty_meta, grobid |-> empty_meta, fitz_meta |-> empty_meta,
               pdfplumber_meta |-> empty_meta, filename_meta |-> empty_meta,
               doi_textscan |-> << >>, doi_for_api |-> << >>,
               crossref |-> empty_meta, openalex |-> empty_meta,
               method_outputs |-> [i \in {} |-> empty_meta]]

\* the requests sent so far and, if the call sent one, the service it went to
Sent(call, service) ==
  IF call.requested THEN Append(fn_out.requests, service) ELSE fn_out.requests

\* llm, err_llm = extract_ai_llm_full(first_page, api_key=OPENAI_API_KEY, ...)
ExtractLLM ==
  /\ fn_pc = "extract_ai_llm_full"
  /\ LET call == extract_ai_llm_full(fn_in.OPENAI_API_KEY, fn_in.llm)
     IN  fn_out' = [fn_out EXCEPT !.llm = call.meta, !.requests = Sent(call, "openai")]
  /\ fn_pc' = "extract_grobid_full"
  /\ UNCHANGED << fn_in, vars_block4 >>

\* grobid, err_grobid = extract_grobid_full(pdf)
ExtractGrobid ==
  /\ fn_pc = "extract_grobid_full"
  /\ LET call == extract_grobid_full(fn_in.grobid)
     IN  fn_out' = [fn_out EXCEPT !.grobid = call.meta, !.requests = Sent(call, "grobid")]
  /\ fn_pc' = "extract_local"
  /\ UNCHANGED << fn_in, vars_block4 >>

\* fitz_meta, pdfplumber_meta and filename_meta
ExtractLocal ==
  /\ fn_pc = "extract_local"
  /\ fn_out' = [fn_out EXCEPT !.fitz_meta = extract_pdf_metadata(<< >>),
                              !.pdfplumber_meta = extract_pdf_metadata(<< >>),
                              !.filename_meta = fn_in.filename]
  /\ fn_pc' = "search_doi_in_text"
  /\ UNCHANGED << fn_in, vars_block4 >>

\* doi_textscan = search_doi_in_text(pdf) and the fallback that follows it
TextScan ==
  /\ fn_pc = "search_doi_in_text"
  /\ LET doi_textscan == normalize_doi(fn_in.text)
         found == \E x \in { fn_out.grobid, fn_out.fitz_meta, fn_out.pdfplumber_meta,
                             fn_out.filename_meta } : normalize_doi(x.doi) # << >>
     IN  fn_out' = [fn_out EXCEPT !.doi_textscan = doi_textscan,
                                  !.filename_meta.doi =
                                     IF ~found /\ doi_textscan # << >> THEN doi_textscan ELSE @]
  /\ fn_pc' = "extract_crossref_full"
  /\ UNCHANGED << fn_in, vars_block4 >>

\* doi_for_api, title_for_api and crossref, err_crossref = extract_crossref_full(...)
QueryCrossref ==
  /\ fn_pc = "extract_crossref_full"
  /\ LET doi_for_api == normalize_doi(Or(fn_out.grobid.doi, Or(fn_out.fitz_meta.doi,
                          Or(fn_out.pdfplumber_meta.doi, Or(fn_out.filename_meta.doi,
                          fn_out.llm.doi)))))
         title_for_api == Or(fn_out.llm.title, Or(fn_out.grobid.title,
                            Or(fn_out.fitz_meta.title, fn_out.filename_meta.title)))
         call == extract_crossref_full(fn_in.allow_internet, doi_for_api, title_for_api,
                                       fn_in.crossref)
         adopt == doi_for_api = << >> /\ call.meta.doi # << >>
     IN  fn_out' = [fn_out EXCEPT
                      !.crossref = IF adopt THEN [call.meta EXCEPT !.doi = normalize_doi(@)]
                                   ELSE call.meta,
                      !.doi_for_api = IF adopt THEN normalize_doi(call.meta.doi)
                                      ELSE doi_for_api,
                      !.requests = Sent(call, "crossref")]
  /\ fn_pc' = "extract_openalex_full"
  /\ UNCHANGED << fn_in, vars_block4 >>

\* openalex, err_openalex = extract_openalex_full(doi_for_api, title_for_api)
QueryOpenAlex ==
  /\ fn_pc = "extract_openalex_full"
  /\ LET title_for_api == Or(fn_out.llm.title, Or(fn_out.grobid.title,
                            Or(fn_out.fitz_meta.title, fn_out.filename_meta.title)))
         call == extract_openalex_full(fn_in.allow_internet, fn_out.doi_for_api,
                                       title_for_api, fn_in.openalex)
     IN  fn_out' = [fn_out EXCEPT !.openalex = call.meta, !.requests = Sent(call, "openalex")]
  /\ fn_pc' = "method_outputs"
  /\ UNCHANGED << fn_in, vars_block4 >>

\* method_outputs = {...} and the normalization loop over it
WriteMethodOutputs ==
  /\ fn_pc = "method_outputs"
  /\ LET raw == [llm |-> fn_out.llm, grobid |-> fn_out.grobid, fitz |-> fn_out.fitz_meta,
                 pdfplumber |-> fn_out.pdfplumber_meta, filename |-> fn_out.filename_meta,
                 crossref |-> fn_out.crossref, openalex |-> fn_out.openalex]
     IN  fn_out' = [fn_out EXCEPT !.method_outputs =
                      [m \in Range(method_names) |->
                         [f \in block3_fields |-> method_output(raw[m][f], f)]]]
  /\ fn_pc' = "raw_meta_written"
  /\ UNCHANGED << fn_in, vars_block4 >>

NextBlock3 ==
  \/ ExtractLLM
  \/ ExtractGrobid
  \/ ExtractLocal
  \/ TextScan
  \/ QueryCrossref
  \/ QueryOpenAlex
  \/ WriteMethodOutputs

SpecBlock3 == InitBlock3 /\ [][NextBlock3]_vars

(***************************************************************************)
(* Properties of Block 3                                                   *)
(***************************************************************************)

\* the methods whose output comes from a service on the network
AffectedMethods == { "llm", "crossref", "openalex" }

\* C22: with allow_internet false, no request is sent to any service while a
\* document is extracted, and the votes of the LLM, of crossref and of
\* openalex are empty.
C22_NoRequestWithoutInternet ==
  (fn_in.fn = "block3" /\ ~fn_in.allow_internet)
    => /\ fn_out.requests = << >>
       /\ fn_pc = "raw_meta_written"
            => \A m \in AffectedMethods : \A f \in block3_fields :
                 fn_out.method_outputs[m][f] = << >>

\* what each method itself found for the DOI of the document
Produced(m) ==
  IF m \in { "fitz", "pdfplumber" } THEN << >> ELSE fn_in[m].doi

\* C29: the DOI written under a method's name is empty or is the normalized
\* DOI that this method found; the DOI of the text scan is under no method's
\* name unless the method found it too.
C29_VoteProducedByItsMethod ==
  (fn_in.fn = "block3" /\ fn_pc = "raw_meta_written")
    => \A i \in 1..Len(method_names) :
         LET m == method_names[i]
         IN  fn_out.method_outputs[m].doi \in { << >>, normalize_doi(Produced(m)) }

(***************************************************************************)
(* ai_nurse_scr.pipeline.extract_data                                      *)
(***************************************************************************)

\* the fields of a metadata dictionary the model follows
data_fields == { "doi", "title", "year" }

\* bool(v) of a field value: None and "" are falsy
truthy(v) == v # << >> /\ v # NoneValue

\* a variant of the update that keeps the other dictionary's empty values
dict_update_all(meta, other) == other

\* meta.update({k: v for k, v in other.items() if v})
dict_update(meta, other) ==
  [k \in DOMAIN meta |-> IF truthy(other[k]) THEN other[k] ELSE meta[k]]

ValY1 == << "2", "0", "2", "3" >>
ValY2 == << "2", "0", "2", "4" >>

\* what the LLM, Crossref and OpenAlex answer for one paper
LlmAnswers ==
  { [doi |-> d, title |-> t, year |-> y] :
      d \in { << >>, NoneValue, DoiLower }, t \in { << >>, NoneValue, ValA }, y \in { << >>, ValY1 } }

CrossrefAnswers ==
  { [doi |-> d, title |-> t, year |-> y] :
      d \in { << >>, DoiLower }, t \in { << >>, ValC }, y \in { << >>, ValY2 } }

OpenAlexAnswers ==
  { [doi |-> d, title |-> t, year |-> y] :
      d \in { << >>, DoiUrlLower }, t \in { << >>, ValS }, y \in { << >>, ValY1 } }

InitExtractData ==
  /\ Block4Off
  /\ fn_pc = "extract_ai_llm_full"
  /\ \E llm \in LlmAnswers, cr \in CrossrefAnswers, oa \in OpenAlexAnswers :
       fn_in = [fn |-> "extract_data", llm |-> llm, crossref |-> cr, openalex |-> oa]
  /\ fn_out = [fn |-> "extract_data", meta |-> [f \in data_fields |-> << >>],
               consulted |-> << >>]

\* meta = extraction.extract_ai_llm_full(first_chunk, model=model); doi = meta.get("doi", "")
DataFromLLM ==
  /\ fn_pc = "extract_ai_llm_full"
  /\ fn_in.fn = "extract_data"
  /\ fn_out' = [fn_out EXCEPT !.meta = fn_in.llm, !.consulted = << "llm" >>]
  /\ fn_pc' = IF truthy(fn_in.llm.doi) THEN "extract_crossref_full" ELSE "returned"
  /\ UNCHANGED << fn_in, vars_block4 >>

\* cr = extraction.extract_crossref_full(doi, meta.get("title")); meta.update(...)
DataFromCrossref ==
  /\ fn_pc = "extract_crossref_full"
  /\ fn_in.fn = "extract_data"
  /\ fn_out' = [fn_out EXCEPT !.meta = dict_update(@, fn_in.crossref),
                              !.consulted = Append(@, "crossref")]
  /\ fn_pc' = "extract_openalex_full"
  /\ UNCHANGED << fn_in, vars_block4 >>

\* oa = extraction.extract_openalex_full(doi, meta.get("title")); meta.update(...)
DataFromOpenAlex ==
  /\ fn_pc = "extract_openalex_full"
  /\ fn_in.fn = "extract_data"
  /\ fn_out' = [fn_out EXCEPT !.meta = dict_update(@, fn_in.openalex),
                              !.consulted = Append(@, "openalex")]
  /\ fn_pc' = "returned"
  /\ UNCHANGED << fn_in, vars_block4 >>

NextExtractData == DataFromLLM \/ DataFromCrossref \/ DataFromOpenAlex

SpecExtractData == InitExtractData /\ [][NextExtractData]_vars

(***************************************************************************)
(* Properties of extract_data                                              *)
(***************************************************************************)

\* the sources in the order they are asked: the registries only after a DOI
\* from the LLM
SourceOrder ==
  IF truthy(fn_in.llm.doi) THEN << "llm", "crossref", "openalex" >> ELSE << "llm" >>

\* the places in SourceOrder of the sources whose value of field f is non-empty
NonEmptyAt(f) == { i \in 1..Len(SourceOrder) : truthy(fn_in[SourceOrder[i]][f]) }

ExtractDataReturned == fn_in.fn = "extract_data" /\ fn_pc = "returned"

MaxRounds == 2

\* the keys of STAGES, in the order of the dictionary display
stage_names == << "metadata", "chunking", "round1", "round2", "round3", "synthesis" >>

\* the top-level statements of pipeline.py that bind a name, in file order:
\* the name bound, the line, and the names the statement evaluates when it is
\* executed (a def evaluates none of the names of its body)
pipeline_statements ==
  << [kind |-> "def", name |-> "load_config", line |-> 24, evaluates |-> {}],
     [kind |-> "def", name |-> "find_pdfs", line |-> 29, evaluates |-> {}],
     [kind |-> "def", name |-> "extract_text", line |-> 34, evaluates |-> {}],
     [kind |-> "def", name |-> "extract_data", line |-> 47, evaluates |-> {}],
     [kind |-> "def", name |-> "run", line |-> 61, evaluates |-> {}],
     [kind |-> "def", name |-> "run_chunking", line |-> 193, evaluates |-> {}],
     [kind |-> "def", name |-> "ask_llm", line |-> 214, evaluates |-> {}],
     [kind |-> "def", name |-> "_chunk_text", line |-> 230, evaluates |-> {}],
     [kind |-> "def", name |-> "run_rounds", line |-> 236, evaluates |-> {}],
     [kind |-> "def", name |-> "run_round2", line |-> 281, evaluates |-> {}],
     [kind |-> "def", name |-> "run_round3", line |-> 309, evaluates |-> {}],
     [kind |-> "def", name |-> "run_synthesis", line |-> 320, evaluates |-> {}],
     [kind |-> "assign", name |-> "STAGES", line |-> 335,
      evaluates |-> { "run_metadata", "run_chunking", "run_round1", "run_round2",
                      "run_round3", "run_synthesis" }],
     [kind |-> "def", name |-> "run", line |-> 345, evaluates |-> {}],
     [kind |-> "def", name |-> "run_multiple", line |-> 369, evaluates |-> {}],
     [kind |-> "def", name |-> "run_rounds", line |-> 389, evaluates |-> {}] >>

\* the calls a test or the CLI is about to make
PipelineCalls ==
  { [call |-> "run", start |-> a, stop |-> b, force |-> f, existing |-> e, rounds |-> 1] :
      a \in Range(stage_names) \cup { "bogus" }, b \in Range(stage_names) \cup { "bogus" },
      f \in BOOLEAN, e \in BOOLEAN }
  \cup
  { [call |-> "run_multiple", start |-> "metadata", stop |-> "synthesis", force |-> FALSE,
     existing |-> FALSE, rounds |-> n] : n \in 1..MaxRounds }

\* "from ai_nurse_scr import pipeline": the module's namespace is empty, the
\* output directory holds a metadata output of the run_id or not
InitPipeline ==
  /\ Block4Off
  /\ fn_pc = "import"
  /\ \E c \in PipelineCalls : fn_in = [fn |-> "pipeline", request |-> c]
  /\ fn_out = [fn |-> "pipeline", next |-> 1, globals |-> [n \in {} |-> 0],
               raised |-> "none", returned |-> << >>, stages_run |-> << >>,
               written |-> {}]

\* after the statement at fn_out.next
AfterStatement == IF fn_out.next = Len(pipeline_statements) THEN "imported" ELSE "import"

\* a def statement binds its name to the new function
ExecDef ==
  /\ fn_pc = "import"
  /\ fn_in.fn = "pipeline"
  /\ LET s == pipeline_statements[fn_out.next]
     IN  /\ s.kind = "def"
         /\ fn_out' = [fn_out EXCEPT
                         !.globals = [n \in DOMAIN @ \cup { s.name } |->
                                        IF n = s.name THEN s.line ELSE @[n]],
                         !.next = @ + 1]
  /\ fn_pc' = AfterStatement
  /\ UNCHANGED << fn_in, vars_block4 >>

\* an assignment evaluates its right-hand side: a name that is not bound
\* raises NameError, which ends the import
ExecAssign ==
  /\ fn_pc = "import"
  /\ fn_in.fn = "pipeline"
  /\ LET s == pipeline_statements[fn_out.next]
     IN  /\ s.kind = "assign"
         /\ IF s.evaluates \subseteq DOMAIN fn_out.globals
            THEN /\ fn_out' = [fn_out EXCEPT
                                 !.globals = [n \in DOMAIN @ \cup { s.name } |->
                                                IF n = s.name THEN s.line ELSE @[n]],
                                 !.next = @ + 1]
                 /\ fn_pc' = AfterStatement
            ELSE /\ fn_out' = [fn_out EXCEPT !.raised = "NameError"]
                 /\ fn_pc' = "raised"
  /\ UNCHANGED << fn_in, vars_block4 >>

NextPipeline == ExecDef \/ ExecAssign

SpecPipeline == InitPipeline /\ [][NextPipeline]_vars

(***************************************************************************)
(* Properties of the pipeline                                              *)
(***************************************************************************)

\* the process that was to make the call has ended, by return or by exception
PipelineEnded == fn_in.fn = "pipeline" /\ fn_pc \in { "returned", "raised" }

StageIndex(name) == CHOOSE i \in 1..Len(stage_names) : stage_names[i] = name

ValidStages(c) ==
  /\ c.start \in Range(stage_names)
  /\ c.stop \in Range(stage_names)
  /\ StageIndex(c.start) <= StageIndex(c.stop)

\* C24: run_multiple(config, pdf_dir, rounds=n) returns n paths, each of a
\* file that exists when the call is over.
C24_RunMultipleReturnsExistingFiles ==
  (PipelineEnded /\ fn_in.request.call = "run_multiple")
    => /\ fn_out.raised = "none"
       /\ Len(fn_out.returned) = fn_in.request.rounds
       /\ Range(fn_out.returned) \subseteq fn_out.written

\* C25: run(start, stop) with valid stage names, start not after stop, ends
\* having executed the stages start..stop, each once and in the order of
\* stage_names; with any other start or stop it ends in ValueError having
\* executed no stage.
C25_RunExecutesStartToStop ==
  (PipelineEnded /\ fn_in.request.call = "run")
    => IF ValidStages(fn_in.request)
       THEN /\ fn_out.raised = "none"
            /\ fn_out.stages_run =
                 SubSeq(stage_names, StageIndex(fn_in.request.start),
                        StageIndex(fn_in.request.stop))
       ELSE /\ fn_out.raised = "ValueError"
            /\ fn_out.stages_run = << >>

\* C26: run without force, when a metadata output of the run_id exists, ends
\* by returning an existing output, having run no stage and written no file;
\* run with force ends having written a new metadata output.
C26_SkipUnlessForced ==
  (PipelineEnded /\ fn_in.request.call = "run" /\ ValidStages(fn_in.request)
     /\ fn_in.request.start = "metadata")
    => /\ (fn_in.request.existing /\ ~fn_in.request.force)
            => /\ fn_out.raised = "none"
               /\ fn_out.returned = << "existing_metadata" >>
               /\ fn_out.stages_run = << >>
               /\ fn_out.written = {}
       /\ fn_in.request.force
            => /\ fn_out.raised = "none"
               /\ "new_metadata" \in fn_out.written

(***************************************************************************)
(* Properties of the decisions                                             *)
(***************************************************************************)

\* the loop body decided (r, f) without the reviewer
AutoResolved(r, f) == branch_taken[r][f] \in { "preferred", "agreement", "single" }

\* C27: every field the pass resolved by itself has a final value that is
\* some method's non-empty vote and is not the missing placeholder, and its
\* recorded source is the name of a method whose vote is that final value.
C27_AutoDecisionIsSomeMethodsVote ==
  \A r \in Rows, f \in FieldSet :
    AutoResolved(r, f)
      => /\ df_final[r][f] \notin { << >>, MISSING, NaN }
         /\ \E m \in Range(methods) : df_votes[r][f][m] = df_final[r][f]
         /\ df_src[r][f] \in Range(methods)
         /\ df_votes[r][f][df_src[r][f]] = df_final[r][f]

\* a prompt was shown and answered: the decision and the log entry of the
\* prompted (record, field) are written by that same step
AnswerRecorded ==
  pc = "review" =>
    /\ Len(corrections') = Len(corrections) + 1
    /\ LET c == corrections'[Len(corrections')]
       IN  /\ c.pdf_id = shown'.row /\ c.field = shown'.field
           /\ df_final'[shown'.row][shown'.field] = c.chosen
           /\ df_src'[shown'.row][shown'.field] = c.src
    /\ df_final'[shown'.row][shown'.field] # NaN
    /\ df_src'[shown'.row][shown'.field] # NoSrc

\* C28: every prompt the reviewer answers adds exactly one entry to the
\* corrections and sets the final value and the source of the prompted field;
\* no answer leaves the field without a decision and without a log entry.
C28_EveryAnswerRecorded == [][AnswerRecorded]_vars

(***************************************************************************)
(* The three implementations of normalize_doi                              *)
(***************************************************************************)

\* the values given to every implementation of normalize_doi
DoiInputs == Concats(NormParts("normalize_doi"), MaxParts) \cup { NoneValue, IntValue }

InitDoi ==
  /\ Block4Off
  /\ fn_pc = "call"
  /\ \E x \in DoiInputs : fn_in = [fn |-> "normalize_doi_all", x |-> x]
  /\ fn_out = NoCall

\* normalize_doi(x) of the notebook, of ai_nurse_scr.utils and of paperqa2.utils
NormalizeDoiAll ==
  /\ fn_pc = "call"
  /\ fn_in.fn = "normalize_doi_all"
  /\ fn_out' = [fn |-> "normalize_doi_all",
                notebook |-> normalize_doi(fn_in.x),
                utils |-> utils_normalize_doi(fn_in.x),
                paperqa2 |-> paperqa2_normalize_doi(fn_in.x)]
  /\ fn_pc' = "returned"
  /\ UNCHANGED << fn_in, vars_block4 >>

NextDoi == NormalizeDoiAll

SpecDoi == InitDoi /\ [][NextDoi]_vars

\* C30: on every input, None and non-strings included, the three
\* implementations of normalize_doi return the same value.
C30_NormalizeDoiImplementationsAgree ==
  (fn_in.fn = "normalize_doi_all" /\ fn_pc = "returned")
    => /\ fn_out.notebook = fn_out.utils
       /\ fn_out.utils = fn_out.paperqa2

=============================================================================
